---- MODULE Spec2Model ----
(***************************************************************************)
(* A model of nacli: src/nacli/git.py (class Repo) and                     *)
(* src/nacli/statetree.py (GitRef, State, StateTreeRepo).                  *)
(*                                                                         *)
(* Text is modelled as sequences of ASCII codes, so that the canonical     *)
(* rendering of a State (State.__repr__) and the comparison used by        *)
(* sorted() (State.__lt__) are computed, not assumed.  A YAML scalar       *)
(* keeps its type: the integer 1 and the string "1" are different values   *)
(* with the same str().                                                    *)
(***************************************************************************)
EXTENDS Integers, Sequences, FiniteSets, TLC

VARIABLES
    vin,          \* argument handed to StateTreeRepo._verify_state
    vout,         \* its outcome: a State or the exception raised
    rootUrl,      \* url given to StateTreeRepo(url=...)
    manifests,    \* states.yaml of every remote branch of the root repository
    pc,           \* position of the caller / of the running method
    environments, \* StateTreeRepo._environments (a defaultdict(list))
    tmp,          \* temporary directories that exist on disk (0: the root's)
    nclones,      \* number of Repo objects created by State.as_dict so far
    branchq,      \* branches the generator Repo.branches has yet to yield
    ystates,      \* yaml(): states of sorted(...) not yet exported
    ydict,        \* yaml(): the local dict _yaml
    yenv,         \* yaml(): its argument environment
    result,       \* value returned by the last yaml() call
    err,          \* exception that reached the caller, NoExc if none
    calls         \* number of yaml() calls made

vars == <<vin, vout, rootUrl, manifests, pc, environments, tmp, nclones,
          branchq, ystates, ydict, yenv, result, err, calls>>

(***************************************************************************)
(* Bounds of the model.                                                    *)
(***************************************************************************)
MaxEntries == 2
MaxCalls == 2

(***************************************************************************)
(* Text.                                                                   *)
(***************************************************************************)
\* Python's str < str: lexicographic on code points.
RECURSIVE TextLess(_, _)
TextLess(a, b) ==
    IF b = <<>> THEN FALSE
    ELSE IF a = <<>> THEN TRUE
    ELSE IF Head(a) # Head(b) THEN Head(a) < Head(b)
    ELSE TextLess(Tail(a), Tail(b))

\* YAML scalars as yaml.safe_load returns them: a str or an int, with the
\* text str() gives for it.
StrV(t) == [ty |-> "str", tx |-> t, opts |-> <<>>]
IntV(t) == [ty |-> "int", tx |-> t, opts |-> <<>>]
ListV == [ty |-> "list", tx |-> <<>>, opts |-> <<>>]
DictV(o) == [ty |-> "dict", tx |-> <<>>, opts |-> o]
NoneV == [ty |-> "none", tx |-> <<>>, opts |-> <<>>]

\* "{}".format(v)
Str(v) == v.tx

(***************************************************************************)
(* Exceptions and outcomes.                                                *)
(***************************************************************************)
Exc(cls, what, kind, name, url, keys, branch) ==
    [cls |-> cls, what |-> what, kind |-> kind, name |-> name, url |-> url,
     keys |-> keys, branch |-> branch]

NoExc == Exc("none", "none", "none", <<>>, <<>>, {}, "none")

\* GitError raised by Repo.git for a non-zero exit status
GitCommandError(cmd, url) == Exc("GitError", "command", cmd, <<>>, url, {}, "none")

\* GitError raised by the validate_* methods
GitNotFound(kind, name, url) ==
    Exc("GitError", "notfound", kind, name, url, {}, "none")

\* TypeError raised by subprocess for a non-str argument
ArgTypeError == Exc("TypeError", "argument", "none", <<>>, <<>>, {}, "none")

\* StateParseError, with the state name, the option keys and the branch the
\* message contains
StateParseError(what, name, keys, branch) ==
    Exc("StateParseError", what, "none", name, <<>>, keys, branch)

(***************************************************************************)
(* GitRef, GitBranch, GitCommit, GitTag and State.                         *)
(***************************************************************************)
GitRef(name, reftype) == [reftype |-> reftype, name |-> name]

NoRef == [reftype |-> "none", name |-> NoneV]

State(name, url, ref) == [name |-> name, url |-> url, ref |-> ref]

NoState == State(NoneV, NoneV, NoRef)

\* str.capitalize() of the three reference types
Capitalize(reftype) ==
    CASE reftype = "branch" -> <<66, 114, 97, 110, 99, 104>>
      [] reftype = "commit" -> <<67, 111, 109, 109, 105, 116>>
      [] reftype = "tag" -> <<84, 97, 103>>

\* GitRef.__str__: "{}: {}".format(reftype.capitalize(), name)
RefStr(ref) == Capitalize(ref.reftype) \o <<58, 32>> \o Str(ref.name)

\* State.__repr__: "name (url)" or "name (url) [Reftype: refname]"
Repr(s) ==
    LET state == Str(s.name) \o <<32, 40>> \o Str(s.url) \o <<41>>
    IN IF s.ref # NoRef
       THEN state \o <<32, 91>> \o RefStr(s.ref) \o <<93>>
       ELSE state

\* State.__lt__: str(other) > str(self)
Lt(self, other) == TextLess(Repr(self), Repr(other))

(***************************************************************************)
(* StateTreeRepo._verify_state.  An entry of states.yaml is a mapping,     *)
(* here a sequence of <<key, value>> pairs.                                *)
(***************************************************************************)
StateOptions == {"branch", "commit", "tag", "url"}
RefOptions == {"branch", "commit", "tag"}

Raise(e) == [exc |-> e, state |-> NoState]
Return(s) == [exc |-> NoExc, state |-> s]

\* line 146, with the bound off by one: two reference options pass
ConflictLax(rest) == Cardinality(rest) > 2

\* line 146: len(state_options) > 1, once url has been popped
Conflict(rest) == Cardinality(rest) > 1

verify_state(state) ==
    IF Len(state) # 1
    THEN Raise(StateParseError("single_key", <<>>, {}, "none"))
    ELSE
    LET state_name == state[1][1]
        state_options == state[1][2]
    IN
    IF state_options.ty \notin {"str", "dict"}
    THEN Raise(StateParseError("type", Str(state_name), {}, "none"))
    ELSE IF state_options.ty = "dict"
    THEN
        LET o == state_options.opts
            invalid_keys == DOMAIN o \ StateOptions
            rest == DOMAIN o \ {"url"}
        IN
        IF invalid_keys # {}
        THEN Raise(StateParseError("invalid", Str(state_name), invalid_keys, "none"))
        ELSE IF "url" \notin DOMAIN o
        THEN Raise(StateParseError("missing_url", Str(state_name), {}, "none"))
        ELSE IF Conflict(rest)
        THEN Raise(StateParseError("conflict", Str(state_name), rest, "none"))
        ELSE IF "branch" \in rest
        THEN Return(State(state_name, o["url"], GitRef(o["branch"], "branch")))
        ELSE IF "commit" \in rest
        THEN Return(State(state_name, o["url"], GitRef(o["commit"], "commit")))
        ELSE IF "tag" \in rest
        THEN Return(State(state_name, o["url"], GitRef(o["tag"], "tag")))
        ELSE Return(State(state_name, o["url"], NoRef))
    ELSE Return(State(state_name, state_options, NoRef))

(***************************************************************************)
(* The remote repositories the program talks to.  "u" is reachable and     *)
(* holds branch 1, tag t (annotated) and commit c; "w" is reachable and    *)
(* holds none of them; "x" cannot be cloned; "r" is a reachable root       *)
(* repository.                                                             *)
(***************************************************************************)
TxA == <<97>>
TxB == <<98>>
TxC == <<99>>
TxR == <<114>>
TxT == <<116>>
TxU == <<117>>
TxW == <<119>>
TxX == <<120>>
TxOne == <<49>>

Reachable == {TxR, TxU, TxW}

RemoteBranches(url) == IF url = TxU THEN {TxOne} ELSE {}

Tags(url) == IF url = TxU THEN {TxT} ELSE {}

\* type of the object a name resolves to, "" when it resolves to nothing
ObjectType(url, name) ==
    IF url = TxU /\ name = TxC THEN "commit"
    ELSE IF url = TxU /\ name = TxT THEN "tag"
    ELSE ""

\* lines of `git branch --list --all` in the root working copy
RootListing ==
    << [remote |-> FALSE, arrow |-> FALSE, name |-> "master"],
       [remote |-> TRUE, arrow |-> TRUE, name |-> "HEAD"],
       [remote |-> TRUE, arrow |-> FALSE, name |-> "base"],
       [remote |-> TRUE, arrow |-> FALSE, name |-> "dev"] >>

(***************************************************************************)
(* Repo (git.py).                                                          *)
(***************************************************************************)
\* the git subprocess: exit status and output of one command
RunGit(url, cmd, arg) ==
    CASE cmd = "clone" ->
            [rc |-> IF arg \in Reachable THEN 0 ELSE 128, out |-> ""]
      [] cmd = "branch" ->
            [rc |-> 0,
             out |-> IF arg \in RemoteBranches(url) THEN "listed" ELSE ""]
      [] cmd = "tag" ->
            [rc |-> 0, out |-> IF arg \in Tags(url) THEN "listed" ELSE ""]
      [] cmd = "cat-file" ->
            IF ObjectType(url, arg) = ""
            THEN [rc |-> 128, out |-> ""]
            ELSE [rc |-> 0, out |-> ObjectType(url, arg)]

\* Repo.git: subprocess.check_output wants str arguments; a non-zero exit
\* status becomes a GitError
git(url, cmd, arg) ==
    IF arg.ty # "str" THEN [exc |-> ArgTypeError, out |-> ""]
    ELSE LET r == RunGit(url, cmd, Str(arg))
         IN IF r.rc # 0
            THEN [exc |-> GitCommandError(cmd, url), out |-> ""]
            ELSE [exc |-> NoExc, out |-> r.out]

\* Repo.__init__: the clone
clone(url) == git(Str(url), "clone", url).exc

\* Repo.branches: the lines matching \s*remotes/origin/([^\s]+$)
RECURSIVE branches(_)
branches(lines) ==
    IF lines = <<>> THEN <<>>
    ELSE IF Head(lines).remote /\ ~Head(lines).arrow
         THEN <<Head(lines).name>> \o branches(Tail(lines))
         ELSE branches(Tail(lines))

\* Repo.validate_branch: the pattern is 'origin/{}'.format(branch)
validate_branch(url, branch) ==
    LET r == git(url, "branch", StrV(Str(branch)))
    IN IF r.exc # NoExc THEN r.exc
       ELSE IF r.out = "" THEN GitNotFound("branch", Str(branch), url)
       ELSE NoExc

\* Repo.validate_tag
validate_tag(url, tag) ==
    LET r == git(url, "tag", tag)
    IN IF r.exc # NoExc THEN r.exc
       ELSE IF r.out = "" THEN GitNotFound("tag", Str(tag), url)
       ELSE NoExc

\* Repo.validate_commit
validate_commit(url, commit) ==
    LET r == git(url, "cat-file", commit)
    IN IF r.exc # NoExc THEN r.exc
       ELSE IF r.out # "commit" THEN GitNotFound("commit", Str(commit), url)
       ELSE NoExc

(***************************************************************************)
(* State.as_dict.                                                          *)
(***************************************************************************)
\* a variant of the try block that swallows every exception
validate_quiet(s) == NoExc

\* lines 93-101: validators[self.ref.reftype](self.ref.name); the
\* AttributeError of a State without ref is passed over
validate(s) ==
    CASE s.ref = NoRef -> NoExc
      [] s.ref.reftype = "branch" -> validate_branch(Str(s.url), s.ref.name)
      [] s.ref.reftype = "commit" -> validate_commit(Str(s.url), s.ref.name)
      [] s.ref.reftype = "tag" -> validate_tag(Str(s.url), s.ref.name)

\* lines 102-110: the mapping returned, as its <<key, value>> item
as_dict_item(s) ==
    IF s.ref # NoRef
    THEN <<s.name, DictV(("url" :> s.url) @@ (s.ref.reftype :> s.ref.name))>>
    ELSE <<s.name, s.url>>

\* as_dict(verify_refs=True) as a whole: the exception raised, or the item
as_dict(s) ==
    IF clone(s.url) # NoExc THEN [exc |-> clone(s.url), item |-> <<>>]
    ELSE IF validate(s) # NoExc THEN [exc |-> validate(s), item |-> <<>>]
    ELSE [exc |-> NoExc, item |-> as_dict_item(s)]

(***************************************************************************)
(* sorted(), dict.update and yaml.safe_dump.                               *)
(***************************************************************************)
\* place x after the last element it is not less than (binary insertion of
\* list.sort, which only calls __lt__ and is stable)
RECURSIVE InsertSorted(_, _)
InsertSorted(s, x) ==
    IF s = <<>> THEN <<x>>
    ELSE IF Lt(x, Head(s)) THEN <<x>> \o s
    ELSE <<Head(s)>> \o InsertSorted(Tail(s), x)

RECURSIVE SortFrom(_, _)
SortFrom(acc, s) ==
    IF s = <<>> THEN acc ELSE SortFrom(InsertSorted(acc, Head(s)), Tail(s))

\* a variant that keeps the list in the order given
unsorted(s) == s

\* sorted(self._environments[environment])
sorted(s) == SortFrom(<<>>, s)

\* _yaml.update({key: value}): a dict keeps the position of a key it has
update(d, item) ==
    IF \E i \in 1..Len(d) : d[i][1] = item[1]
    THEN [i \in 1..Len(d) |-> IF d[i][1] = item[1] THEN item ELSE d[i]]
    ELSE Append(d, item)

RECURSIVE InsertByKey(_, _)
InsertByKey(s, item) ==
    IF s = <<>> THEN <<item>>
    ELSE IF TextLess(Str(item[1]), Str(Head(s)[1])) THEN <<item>> \o s
    ELSE <<Head(s)>> \o InsertByKey(Tail(s), item)

RECURSIVE SortByKey(_, _)
SortByKey(acc, d) ==
    IF d = <<>> THEN acc ELSE SortByKey(InsertByKey(acc, Head(d)), Tail(d))

\* yaml.safe_dump(_yaml, default_flow_style=False): the mapping with its
\* keys sorted (PyYAML's sort_keys default); scalars keep their type
safe_dump(d) == SortByKey(<<>>, d)

NoDocument == [returned |-> FALSE, doc |-> <<>>]
Document(d) == [returned |-> TRUE, doc |-> d]

\* yaml(environment) as a whole, for a list of states
RECURSIVE YamlFrom(_, _)
YamlFrom(d, states) ==
    IF states = <<>> THEN Document(safe_dump(d))
    ELSE LET r == as_dict(Head(states))
         IN IF r.exc # NoExc THEN NoDocument
            ELSE YamlFrom(update(d, r.item), Tail(states))

YamlOf(states) == YamlFrom(<<>>, sorted(states))

(***************************************************************************)
(* Inputs: the entries a states.yaml may hold, and the manifests.          *)
(***************************************************************************)
Entry(name, value) == << <<StrV(name), value>> >>

Pinned(url, reftype, name) == DictV(("url" :> StrV(url)) @@ (reftype :> name))

ScanEntries ==
    { Entry(TxA, StrV(TxU)),
      Entry(TxA, StrV(TxW)),
      Entry(TxA, Pinned(TxU, "branch", IntV(TxOne))),
      Entry(TxA, Pinned(TxU, "branch", StrV(TxOne))),
      Entry(TxA, Pinned(TxW, "tag", StrV(TxT))),
      Entry(TxA, Pinned(TxX, "tag", StrV(TxT))),
      Entry(TxB, StrV(TxX)),
      Entry(TxB, Pinned(TxU, "commit", StrV(TxC))),
      Entry(TxB, Pinned(TxW, "commit", StrV(TxC))),
      Entry(TxB, Pinned(TxU, "commit", StrV(TxT))),
      Entry(TxB, DictV(("url" :> StrV(TxU)) @@ ("branch" :> StrV(TxOne))
                        @@ ("tag" :> StrV(TxT)))) }

Manifest(file, entries) == [file |-> file, entries |-> entries]

\* states.yaml of branch base: absent, undecodable, or a list of entries
BaseManifests ==
    { Manifest("absent", <<>>), Manifest("invalid", <<>>) }
    \cup { Manifest("ok", es) :
             es \in UNION { [1..n -> ScanEntries] : n \in 0..MaxEntries } }

DevManifests ==
    { Manifest("absent", <<>>), Manifest("invalid", <<>>),
      Manifest("ok", <<Entry(TxB, StrV(TxU))>>) }

\* names yaml() is called with: the two remote branches and a third name
EnvironmentNames == {"base", "dev", "nope"}

\* arguments of _verify_state
OptionValues == {StrV(TxOne), IntV(TxOne)}

VerifyInputs ==
    { <<>>,
      << <<StrV(TxA), StrV(TxU)>>, <<StrV(TxB), StrV(TxU)>> >>,
      Entry(TxA, StrV(TxU)), Entry(TxA, IntV(TxOne)), Entry(TxA, ListV) }
    \cup { Entry(TxA, DictV(o)) :
             o \in UNION { [D -> OptionValues] :
                             D \in SUBSET (StateOptions \cup {"path"}) } }

EmptyDict == [k \in {} |-> <<>>]

(***************************************************************************)
(* StateTreeRepo.__init__ and _scan.                                       *)
(***************************************************************************)
\* self._environments[key] of a defaultdict(list): a missing key is inserted
Touch(d, key) == IF key \in DOMAIN d THEN d ELSE d @@ (key :> <<>>)

\* lines 175-176: validate and append entry after entry, up to the first
\* entry _verify_state rejects
RECURSIVE ScanStates(_, _)
ScanStates(acc, entries) ==
    IF entries = <<>> THEN [exc |-> NoExc, states |-> acc]
    ELSE LET r == verify_state(Head(entries))
         IN IF r.exc # NoExc THEN [exc |-> r.exc, states |-> acc]
            ELSE ScanStates(Append(acc, r.state), Tail(entries))

Init ==
    /\ vin = <<>>
    /\ vout = Return(NoState)
    /\ rootUrl \in {StrV(TxR), StrV(TxX)}
    /\ \E b \in BaseManifests, d \in DevManifests :
          manifests = ("base" :> b) @@ ("dev" :> d)
    /\ pc = "new"
    /\ environments = EmptyDict
    /\ tmp = {}
    /\ nclones = 0
    /\ branchq = <<>>
    /\ ystates = <<>>
    /\ ydict = <<>>
    /\ yenv = "none"
    /\ result = NoDocument
    /\ err = NoExc
    /\ calls = 0

\* StateTreeRepo(url): the defaultdict, the temporary directory, the clone
RepoInit ==
    /\ pc = "new"
    /\ environments' = EmptyDict
    /\ tmp' = tmp \cup {0}
    /\ IF clone(rootUrl) = NoExc
       THEN /\ pc' = "scan"
            /\ branchq' = branches(RootListing)
            /\ UNCHANGED err
       ELSE /\ pc' = "raised"
            /\ err' = clone(rootUrl)
            /\ UNCHANGED branchq
    /\ UNCHANGED <<vin, vout, rootUrl, manifests, nclones, ystates, ydict,
                   yenv, result, calls>>

\* one turn of the loop of _scan: checkout, open states.yaml, safe_load,
\* _verify_state for every entry
ScanBranch ==
    /\ pc = "scan"
    /\ branchq # <<>>
    /\ LET branch == Head(branchq)
           m == manifests[branch]
           r == ScanStates(<<>>, m.entries)
       IN CASE m.file = "absent" ->
                 /\ branchq' = Tail(branchq)
                 /\ UNCHANGED <<pc, environments, err>>
            [] m.file = "invalid" ->
                 /\ pc' = "raised"
                 /\ err' = StateParseError("yaml", <<>>, {}, branch)
                 /\ UNCHANGED <<branchq, environments>>
            [] m.file = "ok" ->
                 /\ environments' =
                       IF m.entries = <<>> THEN environments
                       ELSE [Touch(environments, branch)
                               EXCEPT ![branch] = @ \o r.states]
                 /\ IF r.exc = NoExc
                    THEN /\ branchq' = Tail(branchq)
                         /\ UNCHANGED <<pc, err>>
                    ELSE /\ pc' = "raised"
                         /\ err' = r.exc
                         /\ UNCHANGED branchq
    /\ UNCHANGED <<vin, vout, rootUrl, manifests, tmp, nclones, ystates,
                   ydict, yenv, result, calls>>

\* the generator is exhausted: _scan and __init__ return
ScanDone ==
    /\ pc = "scan"
    /\ branchq = <<>>
    /\ pc' = "ready"
    /\ UNCHANGED <<vin, vout, rootUrl, manifests, environments, tmp, nclones,
                   branchq, ystates, ydict, yenv, result, err, calls>>

(***************************************************************************)
(* StateTreeRepo.yaml, one State.as_dict() at a time.                      *)
(***************************************************************************)
\* lines 187-188: _yaml = {} and sorted(self._environments[environment])
Yaml(environment) ==
    /\ pc = "ready"
    /\ calls < MaxCalls
    /\ environments' = Touch(environments, environment)
    /\ ystates' = sorted(environments'[environment])
    /\ ydict' = <<>>
    /\ yenv' = environment
    /\ result' = NoDocument
    /\ err' = NoExc
    /\ calls' = calls + 1
    /\ pc' = "yaml"
    /\ UNCHANGED <<vin, vout, rootUrl, manifests, tmp, nclones, branchq>>

\* as_dict line 92: Repo(url=self.url) makes a temporary directory and
\* clones into it; when the clone fails __exit__ is never called
AsDictOpen ==
    /\ pc = "yaml"
    /\ ystates # <<>>
    /\ nclones' = nclones + 1
    /\ tmp' = tmp \cup {nclones + 1}
    /\ IF clone(Head(ystates).url) = NoExc
       THEN /\ pc' = "verify"
            /\ UNCHANGED err
       ELSE /\ pc' = "ready"
            /\ err' = clone(Head(ystates).url)
    /\ UNCHANGED <<vin, vout, rootUrl, manifests, environments, branchq,
                   ystates, ydict, yenv, result, calls>>

\* as_dict lines 93-110 and yaml line 189: validate, leave the with block
\* (which removes the directory), update _yaml
AsDictValidate ==
    /\ pc = "verify"
    /\ tmp' = tmp \ {nclones}
    /\ LET s == Head(ystates)
       IN IF validate(s) = NoExc
          THEN /\ ydict' = update(ydict, as_dict_item(s))
               /\ ystates' = Tail(ystates)
               /\ pc' = "yaml"
               /\ UNCHANGED err
          ELSE /\ pc' = "ready"
               /\ err' = validate(s)
               /\ UNCHANGED <<ydict, ystates>>
    /\ UNCHANGED <<vin, vout, rootUrl, manifests, environments, nclones,
                   branchq, yenv, result, calls>>

\* yaml line 191
YamlReturn ==
    /\ pc = "yaml"
    /\ ystates = <<>>
    /\ result' = Document(safe_dump(ydict))
    /\ pc' = "ready"
    /\ UNCHANGED <<vin, vout, rootUrl, manifests, environments, tmp, nclones,
                   branchq, ystates, ydict, yenv, err, calls>>

\* Repo.__exit__ of the StateTreeRepo, when the caller used it in a with
\* block and leaves the block
Exit ==
    /\ pc = "ready"
    /\ 0 \in tmp
    /\ tmp' = tmp \ {0}
    /\ pc' = "closed"
    /\ UNCHANGED <<vin, vout, rootUrl, manifests, environments, nclones,
                   branchq, ystates, ydict, yenv, result, err, calls>>

\* the finalizer of the TemporaryDirectory of a Repo nothing refers to any
\* more (its __init__ raised): it runs whenever the collector gets to it
Finalize ==
    /\ \E d \in tmp :
          /\ d = 0 => pc = "raised"
          /\ d # 0 => ~(pc = "verify" /\ d = nclones)
          /\ tmp' = tmp \ {d}
    /\ UNCHANGED <<vin, vout, rootUrl, manifests, pc, environments, nclones,
                   branchq, ystates, ydict, yenv, result, err, calls>>

Next ==
    \/ RepoInit
    \/ ScanBranch
    \/ ScanDone
    \/ \E environment \in EnvironmentNames : Yaml(environment)
    \/ AsDictOpen
    \/ AsDictValidate
    \/ YamlReturn
    \/ Exit
    \/ Finalize

Spec == Init /\ [][Next]_vars

(***************************************************************************)
(* _verify_state on its own, for every entry of VerifyInputs.              *)
(***************************************************************************)
InitVerify ==
    /\ vin \in VerifyInputs
    /\ vout = Return(NoState)
    /\ rootUrl = StrV(TxR)
    /\ manifests = ("base" :> Manifest("absent", <<>>))
                   @@ ("dev" :> Manifest("absent", <<>>))
    /\ pc = "call"
    /\ environments = EmptyDict
    /\ tmp = {}
    /\ nclones = 0
    /\ branchq = <<>>
    /\ ystates = <<>>
    /\ ydict = <<>>
    /\ yenv = "none"
    /\ result = NoDocument
    /\ err = NoExc
    /\ calls = 0

VerifyState ==
    /\ pc = "call"
    /\ vout' = verify_state(vin)
    /\ pc' = "returned"
    /\ UNCHANGED <<vin, rootUrl, manifests, environments, tmp, nclones,
                   branchq, ystates, ydict, yenv, result, err, calls>>

NextVerify == VerifyState

SpecVerify == InitVerify /\ [][NextVerify]_vars

(***************************************************************************)
(* Properties.                                                             *)
(***************************************************************************)
\* the option mapping of a single-key entry handed to _verify_state
VinOptions == vin[1][2].opts
VinRefs == DOMAIN VinOptions \cap RefOptions
VinIsMapping == pc = "returned" /\ Len(vin) = 1 /\ vin[1][2].ty = "dict"

\* url and exactly one of branch, commit, tag: a State with that reference
C1_OneReference ==
    VinIsMapping =>
        \A k \in RefOptions :
            DOMAIN VinOptions = {"url", k} =>
                /\ vout.exc = NoExc
                /\ vout.state = State(vin[1][1], VinOptions["url"],
                                      GitRef(VinOptions[k], k))

\* C1 as stated: with url and exactly one of branch, commit, tag the entry
\* validates to a State whose reference has that kind and name; with two or
\* more of them a StateParseError is raised and its message names the
\* conflicting keys
C1_ConflictAlwaysNamed ==
    /\ C1_OneReference
    /\ (VinIsMapping /\ Cardinality(VinRefs) >= 2) =>
          /\ vout.exc.cls = "StateParseError"
          /\ VinRefs \subseteq vout.exc.keys

\* C1 amended: with url and exactly one of branch, commit, tag the entry
\* validates to a State whose reference has that kind and name; with two or
\* more of them a StateParseError is always raised, and its message names
\* the conflicting keys when the mapping also sets url and holds no
\* unrecognised option (otherwise the message is the one about the
\* unrecognised options or the missing url)
C1_ConflictNamedWhenWellFormed ==
    /\ C1_OneReference
    /\ (VinIsMapping /\ Cardinality(VinRefs) >= 2) =>
          /\ vout.exc.cls = "StateParseError"
          /\ ("url" \in DOMAIN VinOptions /\ DOMAIN VinOptions \subseteq StateOptions)
                => (vout.exc.what = "conflict" /\ vout.exc.keys = VinRefs)
          /\ DOMAIN VinOptions \ StateOptions # {}
                => (vout.exc.what = "invalid"
                    /\ vout.exc.keys = DOMAIN VinOptions \ StateOptions)
          /\ ("url" \notin DOMAIN VinOptions /\ DOMAIN VinOptions \subseteq StateOptions)
                => vout.exc.what = "missing_url"

\* _verify_state has rejected url + branch + tag, naming branch and tag
C1_Witness ==
    /\ VinIsMapping
    /\ DOMAIN VinOptions = {"url", "branch", "tag"}
    /\ vout.exc.what = "conflict"
    /\ vout.exc.keys = {"branch", "tag"}

\* the last yaml() call has returned or raised
YamlEnded == pc = "ready" /\ calls > 0

\* the list yaml() exported: the validated states in manifest order
Exported == environments[yenv]

\* every reordering of a list
Reorderings(s) ==
    { [i \in 1..Len(s) |-> s[p[i]]] : p \in Permutations(1..Len(s)) }

\* the stepwise yaml() and YamlOf agree
YamlAgrees == YamlEnded => result = YamlOf(Exported)

\* C2 as stated: whatever the order of the entries in the manifest,
\* yaml(environment) returns the same document
C2_OrderIndependent ==
    YamlEnded => \A p \in Reorderings(Exported) : YamlOf(p) = result

\* value bound to a key of a dumped document
Lookup(doc, key) ==
    LET i == CHOOSE i \in 1..Len(doc) : doc[i][1] = key IN doc[i][2]

\* entry i of the list shares its name with another entry
Duplicated(s, i) == \E j \in 1..Len(s) : j # i /\ s[j].name = s[i].name

\* the scan appended one State per manifest entry, in manifest order
ScanAcceptedAll ==
    \A b \in DOMAIN environments \cap DOMAIN manifests :
        /\ Len(environments[b]) = Len(manifests[b].entries)
        /\ \A i \in 1..Len(environments[b]) :
              environments[b][i] = verify_state(manifests[b].entries[i]).state

\* C3 as stated: entries sharing a name are all accepted, and the exported
\* value of the name is that of the entry latest in the manifest
C3_LaterEntryWins ==
    (YamlEnded /\ result.returned) =>
        /\ ScanAcceptedAll
        /\ \A i \in 1..Len(Exported) :
              (/\ Duplicated(Exported, i)
               /\ \A j \in 1..Len(Exported) :
                     Exported[j].name = Exported[i].name => j <= i)
              => Lookup(result.doc, Exported[i].name) = as_dict_item(Exported[i])[2]

\* C3 amended: entries sharing a name are all accepted, and the exported
\* value of the name is that of the entry whose rendering (State.__repr__)
\* is greatest; the position in the manifest decides only between entries
\* with the same rendering, where the later one wins
C3_GreatestRenderingWins ==
    (YamlEnded /\ result.returned) =>
        /\ ScanAcceptedAll
        /\ \A i \in 1..Len(Exported) :
              (/\ Duplicated(Exported, i)
               /\ \A j \in 1..Len(Exported) :
                     Exported[j].name = Exported[i].name =>
                        /\ ~Lt(Exported[i], Exported[j])
                        /\ (Repr(Exported[j]) = Repr(Exported[i]) => j <= i))
              => Lookup(result.doc, Exported[i].name) = as_dict_item(Exported[i])[2]

\* an export has returned a document in which the earlier of two entries
\* with one name has won
C3_Witness ==
    /\ YamlEnded
    /\ result.returned
    /\ \E i, j \in 1..Len(Exported) :
          /\ i < j
          /\ Exported[i].name = Exported[j].name
          /\ Lt(Exported[j], Exported[i])
          /\ Lookup(result.doc, Exported[i].name) = as_dict_item(Exported[i])[2]
          /\ as_dict_item(Exported[i])[2] # as_dict_item(Exported[j])[2]

\* the pin of a state is not in its repository, or the repository cannot be
\* cloned
PinAbsent(s) ==
    CASE s.ref.reftype = "branch" -> Str(s.ref.name) \notin RemoteBranches(Str(s.url))
      [] s.ref.reftype = "tag" -> Str(s.ref.name) \notin Tags(Str(s.url))
      [] s.ref.reftype = "commit" -> ObjectType(Str(s.url), Str(s.ref.name)) # "commit"
      [] OTHER -> FALSE

PinFails(s) == s.ref # NoRef /\ (Str(s.url) \notin Reachable \/ PinAbsent(s))

\* C4: when a state of the environment carries a pin that is absent from
\* its repository, or whose repository cannot be opened, yaml(environment)
\* returns no document and ends in an error
C4_UnverifiablePinFatal ==
    (yenv # "none" /\ \E i \in 1..Len(Exported) : PinFails(Exported[i])) =>
        /\ ~result.returned
        /\ YamlEnded => err # NoExc

\* an export of two states has failed on a pin its reachable repository lacks
C4_Witness ==
    /\ YamlEnded
    /\ Len(Exported) >= 2
    /\ \E i \in 1..Len(Exported) :
          PinFails(Exported[i]) /\ Str(Exported[i].url) \in Reachable
    /\ err.what = "notfound"
    /\ ~result.returned

\* remote branches whose states.yaml exists and decodes
ManifestBranches ==
    { b \in DOMAIN manifests :
        /\ \E i \in 1..Len(branches(RootListing)) : branches(RootListing)[i] = b
        /\ manifests[b].file = "ok" }

\* C5 as stated: after a successful scan and any yaml() calls, every key of
\* the environments mapping is a remote branch with a decoded manifest
C5_KeysAreManifestBranches ==
    pc \in {"ready", "yaml", "verify", "closed"} =>
        DOMAIN environments \subseteq ManifestBranches

\* C6 as stated: once the scan has ended, normally or by an error, the
\* root's temporary directory is gone, and the directory of a reference
\* verification exists only while that verification runs
C6_WorkingCopiesReleased ==
    /\ pc \notin {"new", "scan"} => 0 \notin tmp
    /\ \A d \in tmp \ {0} : pc = "verify" /\ d = nclones

\* the state whose as_dict() raised
Failing == Head(ystates)

\* C7 as stated: a validate_* call for a name missing from a repository that
\* was cloned raises the not-found error with kind, name and url, not the
\* error of a failed git command
C7_MissingNameIsNotFound ==
    (/\ YamlEnded
     /\ err # NoExc
     /\ ystates # <<>>
     /\ clone(Failing.url) = NoExc
     /\ Failing.ref # NoRef
     /\ Failing.ref.name.ty = "str"
     /\ PinAbsent(Failing))
    => err = GitNotFound(Failing.ref.reftype, Str(Failing.ref.name), Str(Failing.url))

\* C8 as stated: as_dict() clones only for a state with a pin, so a failed
\* export never fails on a state without one
C8_NoCloneWithoutPin ==
    /\ pc = "verify" => Head(ystates).ref # NoRef
    /\ (YamlEnded /\ err # NoExc /\ ystates # <<>>) => Failing.ref # NoRef

\* C9 as stated: an error that aborts the scan on a branch's manifest, a
\* rejected entry like a decode failure, carries the name of that branch
C9_ScanErrorNamesBranch ==
    (pc = "raised" /\ err.cls = "StateParseError") =>
        /\ branchq # <<>>
        /\ err.branch = Head(branchq)

\* C10 as stated: at most one working copy exists at any time
C10_OneWorkingCopy == Cardinality(tmp) <= 1

====
